---- MODULE Spec2Model ----
(***************************************************************************)
(* botbuilder-choices: defaultTokenizer (tokenizer.ts) and                 *)
(* recognizeChoices (recognizeChoices.ts).                                 *)
(*                                                                         *)
(* A JavaScript string is a sequence of UTF-16 code units.  Offsets are    *)
(* 0-based as in the source; TLA+ sequences are 1-based, so the code unit  *)
(* at offset k of a string s is s[k + 1].                                  *)
(***************************************************************************)
EXTENDS Integers, Sequences, FiniteSets, TLC

VARIABLES
    \* ---- defaultTokenizer ----
    text,       \* the argument: [undef |-> BOOLEAN, units |-> code units]
    i,          \* scan cursor (code-unit offset)
    token,      \* the open token, or NoToken
    tokens,     \* the tokens emitted so far
    tpc,        \* "scan" while in the loop, "done" once the function returned
    \* ---- recognizeChoices ----
    utterance,  \* the utterance argument
    choices,    \* the caller-supplied choices argument
    options,    \* the options argument: [defined |-> BOOLEAN, locale |-> string]
    list,       \* the normalized choices
    found,      \* what findChoices returned
    ordinals,   \* what recognizeOrdinal returned
    numbers,    \* what recognizeNumber returned
    matched,    \* the result array
    calls,      \* how often each collaborator was invoked
    args,       \* the arguments each recognizer was last invoked with
    thrown,     \* who threw ("none" when nobody did)
    pc          \* position in recognizeChoices

tokVars == <<text, i, token, tokens, tpc>>
recVars == <<utterance, choices, options, list, found, ordinals, numbers, matched,
             calls, args, thrown, pc>>
vars == <<text, i, token, tokens, tpc,
          utterance, choices, options, list, found, ordinals, numbers, matched,
          calls, args, thrown, pc>>

(***************************************************************************)
(* Bounds                                                                  *)
(***************************************************************************)
MaxLen == 4         \* longest tokenizer input, in code units

(***************************************************************************)
(* defaultTokenizer                                                        *)
(***************************************************************************)
\* The code units the inputs are drawn from:
\*   97 'a', 65 'A', 32 ' ',
\*   55297 = 0xD801 and 55357 = 0xD83D (high surrogates), 56320 = 0xDC00 (low
\*   surrogate).  0xD801 0xDC00 is U+10400 DESERET CAPITAL LETTER LONG I, whose
\*   lowercase is U+10428; 0xD83D 0xDC00 is U+1F400 (an emoji, caseless).
CodeUnits == {97, 65, 32, 55297, 55357, 56320}

IsHighSurrogate(u) == u >= 55296 /\ u <= 56319     \* 0xD800..0xDBFF
IsLowSurrogate(u) == u >= 56320 /\ u <= 57343      \* 0xDC00..0xDFFF

\* String.prototype.charCodeAt(k)
charCodeAt(s, k) == s[k + 1]

\* String.prototype.codePointAt(k): a high surrogate followed by a low
\* surrogate is one code point; anything else is the code unit itself.
codePointAt(s, k) ==
    IF IsHighSurrogate(s[k + 1]) /\ k + 2 <= Len(s) /\ IsLowSurrogate(s[k + 2])
    THEN 65536 + (s[k + 1] - 55296) * 1024 + (s[k + 2] - 56320)
    ELSE s[k + 1]

\* String.fromCodePoint(cp)
fromCodePoint(cp) ==
    IF cp > 65535
    THEN <<55296 + ((cp - 65536) \div 1024), 56320 + ((cp - 65536) % 1024)>>
    ELSE <<cp>>

\* The lowercase mapping of one code point (Unicode simple case mapping, for
\* the cased ranges the inputs can reach: A-Z and Deseret U+10400..U+10427).
LowerCodePoint(cp) ==
    IF cp >= 65 /\ cp <= 90 THEN cp + 32
    ELSE IF cp >= 66560 /\ cp <= 66599 THEN cp + 40
    ELSE cp

\* String.prototype.toLowerCase(): code point by code point.
RECURSIVE LowerFrom(_, _)
LowerFrom(s, k) ==
    IF k >= Len(s) THEN <<>>
    ELSE LET cp == codePointAt(s, k)
         IN  fromCodePoint(LowerCodePoint(cp)) \o LowerFrom(s, k + Len(fromCodePoint(cp)))

toLowerCase(s) == LowerFrom(s, 0)

isBetween(value, from, to) == value >= from /\ value <= to

isBreakingChar(codePoint) ==
    \/ isBetween(codePoint, 0, 47)            \* 0x0000..0x002F
    \/ isBetween(codePoint, 58, 64)           \* 0x003A..0x0040
    \/ isBetween(codePoint, 91, 96)           \* 0x005B..0x0060
    \/ isBetween(codePoint, 123, 191)         \* 0x007B..0x00BF
    \/ isBetween(codePoint, 697, 879)         \* 0x02B9..0x036F
    \/ isBetween(codePoint, 8192, 11263)      \* 0x2000..0x2BFF
    \/ isBetween(codePoint, 11776, 11903)     \* 0x2E00..0x2E7F

NoToken == [open |-> FALSE, start |-> 0, text |-> <<>>]

\* const length = text ? text.length : 0
length == IF text.undef THEN 0 ELSE Len(text.units)

\* const codePoint = text.codePointAt(i) || text.charCodeAt(i)
codePoint ==
    IF codePointAt(text.units, i) = 0
    THEN charCodeAt(text.units, i)
    ELSE codePointAt(text.units, i)

\* const chr = String.fromCodePoint(codePoint)
chr == fromCodePoint(codePoint)

\* appendToken(end): the tokens array after the call
appendToken(tok, toks, end) ==
    IF tok.open
    THEN Append(toks, [start |-> tok.start, end |-> end, text |-> tok.text,
                       normalized |-> toLowerCase(tok.text)])
    ELSE toks

\* The token pushed for a code point of a supplementary plane.
SupplementaryTokenBadEnd(at, c) ==
    [start |-> at, end |-> at + Len(c), text |-> c, normalized |-> c]

SupplementaryToken(at, c) ==
    [start |-> at, end |-> at + (Len(c) - 1), text |-> c, normalized |-> c]

\* i += chr.length
AdvanceByOne(at, c) == at + 1

Advance(at, c) == at + Len(c)

\* The argument of the final appendToken(length - 1)
FlushEndPastEnd(len) == len

FlushEnd(len) == len - 1

InLoop == tpc = "scan" /\ i < length

ScanBreaking ==
    /\ InLoop
    /\ isBreakingChar(codePoint)
    /\ tokens' = appendToken(token, tokens, i - 1)
    /\ token' = NoToken
    /\ i' = Advance(i, chr)
    /\ UNCHANGED <<text, tpc>>
    /\ UNCHANGED recVars

ScanSupplementary ==
    /\ InLoop
    /\ ~isBreakingChar(codePoint)
    /\ codePoint > 65535
    /\ tokens' = Append(appendToken(token, tokens, i - 1), SupplementaryToken(i, chr))
    /\ token' = NoToken
    /\ i' = Advance(i, chr)
    /\ UNCHANGED <<text, tpc>>
    /\ UNCHANGED recVars

ScanStartToken ==
    /\ InLoop
    /\ ~isBreakingChar(codePoint)
    /\ ~(codePoint > 65535)
    /\ ~token.open
    /\ token' = [open |-> TRUE, start |-> i, text |-> chr]
    /\ i' = Advance(i, chr)
    /\ UNCHANGED <<text, tokens, tpc>>
    /\ UNCHANGED recVars

ScanAddToToken ==
    /\ InLoop
    /\ ~isBreakingChar(codePoint)
    /\ ~(codePoint > 65535)
    /\ token.open
    /\ token' = [token EXCEPT !.text = @ \o chr]
    /\ i' = Advance(i, chr)
    /\ UNCHANGED <<text, tokens, tpc>>
    /\ UNCHANGED recVars

\* Loop exit: appendToken(length - 1); return tokens
FlushAndReturn ==
    /\ tpc = "scan"
    /\ ~(i < length)
    /\ tokens' = appendToken(token, tokens, FlushEnd(length))
    /\ token' = NoToken
    /\ tpc' = "done"
    /\ UNCHANGED <<text, i>>
    /\ UNCHANGED recVars

RECURSIVE SeqsUpTo(_, _)
SeqsUpTo(S, n) ==
    IF n = 0 THEN {<<>>}
    ELSE LET shorter == SeqsUpTo(S, n - 1)
         IN  shorter \cup {Append(s, x) : s \in {t \in shorter : Len(t) = n - 1}, x \in S}

TextInputs ==
    {[undef |-> TRUE, units |-> <<>>]}
        \cup {[undef |-> FALSE, units |-> u] : u \in SeqsUpTo(CodeUnits, MaxLen)}

RecIdle ==
    /\ utterance = ""
    /\ choices = <<>>
    /\ options = [defined |-> FALSE, locale |-> ""]
    /\ args = [recognizeOrdinal |-> <<>>, recognizeNumber |-> <<>>]
    /\ list = <<>>
    /\ found = <<>>
    /\ ordinals = <<>>
    /\ numbers = <<>>
    /\ matched = <<>>
    /\ calls = [findChoices |-> 0, recognizeOrdinal |-> 0, recognizeNumber |-> 0]
    /\ thrown = "none"
    /\ pc = "idle"

InitTokenizer ==
    /\ text \in TextInputs
    /\ i = 0
    /\ token = NoToken
    /\ tokens = <<>>
    /\ tpc = "scan"
    /\ RecIdle

NextTokenizer ==
    \/ ScanBreaking
    \/ ScanSupplementary
    \/ ScanStartToken
    \/ ScanAddToToken
    \/ FlushAndReturn

SpecTokenizer == InitTokenizer /\ [][NextTokenizer]_vars

(***************************************************************************)
(* recognizeChoices                                                        *)
(***************************************************************************)
MaxChoices == 2     \* longest choices argument
MaxMatches == 2     \* longest list a collaborator returns
MaxStart == 1       \* largest start offset of a match in the utterance

ScoreOne == 100     \* score 1.0, in hundredths

\* An entry of the choices argument: a falsy entry (null / undefined), a bare
\* string, or a Choice object.
Falsy == [kind |-> "falsy", value |-> ""]

ChoiceEntries ==
    {Falsy, [kind |-> "string", value |-> "red"], [kind |-> "object", value |-> "green"]}

ChoiceLists == SeqsUpTo(ChoiceEntries, MaxChoices)

\* choice => typeof choice === 'string' ? { value: choice } : choice
ToChoice(choice) ==
    IF choice.kind = "string" THEN [kind |-> "object", value |-> choice.value] ELSE choice

Truthy(choice) == choice.kind # "falsy"

\* (choices || []).map(...).filter((choice) => choice)
Normalize(cs) == SelectSeq([k \in 1 .. Len(cs) |-> ToChoice(cs[k])], Truthy)

\* ---- parseInt ----
\* A string is a sequence of one-character strings.  No value below holds a
\* radix prefix, so parsing is decimal.
DigitChars == <<"0", "1", "2", "3", "4", "5", "6", "7", "8", "9">>

IsDigit(c) == \E k \in 1 .. 10 : DigitChars[k] = c

DigitOf(c) == (CHOOSE k \in 1 .. 10 : DigitChars[k] = c) - 1

RECURSIVE StripLeadingSpace(_)
StripLeadingSpace(s) ==
    IF s # <<>> /\ s[1] = " " THEN StripLeadingSpace(Tail(s)) ELSE s

RECURSIVE DigitsPrefix(_, _, _)
DigitsPrefix(s, k, acc) ==
    IF k > Len(s) \/ ~IsDigit(s[k]) THEN acc
    ELSE DigitsPrefix(s, k + 1, acc * 10 + DigitOf(s[k]))

NaN == [nan |-> TRUE, n |-> 0]

\* parseInt(string): leading white space, an optional sign, then the longest
\* prefix of digits; NaN when there is no digit.
parseInt(str) ==
    LET t == StripLeadingSpace(str)
        signed == t # <<>> /\ t[1] \in {"-", "+"}
        u == IF signed THEN Tail(t) ELSE t
    IN  IF u = <<>> \/ ~IsDigit(u[1]) THEN NaN
        ELSE [nan |-> FALSE,
              n |-> IF signed /\ t[1] = "-" THEN 0 - DigitsPrefix(u, 1, 0)
                    ELSE DigitsPrefix(u, 1, 0)]

\* Arithmetic and comparison with NaN: NaN - 1 is NaN, every comparison with
\* NaN is false.
Minus(x, k) == IF x.nan THEN NaN ELSE [nan |-> FALSE, n |-> x.n - k]

InRange(index, len) == ~index.nan /\ index.n >= 0 /\ index.n < len

\* ---- what the collaborators may return ----
\* A collaborator's match: the text it recognized and the resolution it gives
\* for it.  "missing" is a match without a resolution.
Candidates ==
    {[text |-> "first",     resolution |-> [kind |-> "value", value |-> <<"1">>]],
     [text |-> "2nd",       resolution |-> [kind |-> "value", value |-> <<"2", "n", "d">>]],
     [text |-> "fifth",     resolution |-> [kind |-> "value", value |-> <<"5">>]],
     [text |-> "zero",      resolution |-> [kind |-> "value", value |-> <<"0">>]],
     [text |-> "minus one", resolution |-> [kind |-> "value", value |-> <<" ", "-", "1">>]],
     [text |-> "a",         resolution |-> [kind |-> "value", value |-> <<"a">>]],
     [text |-> "some",      resolution |-> [kind |-> "missing", value |-> <<>>]]}

Matches ==
    {[start |-> s, end |-> s + Len(c.text) - 1, text |-> c.text,
      resolution |-> c.resolution] : s \in 0 .. MaxStart, c \in Candidates}

MatchLists == SeqsUpTo(Matches, MaxMatches)

\* findChoices(utterance, list, options): sorted by ascending start, spans
\* disjoint, each result owned by a choice of the list; nothing for an empty
\* list.
FoundResults(lst) ==
    {[start |-> s, end |-> s, typeName |-> "choice", text |-> "name",
      resolution |-> [value |-> lst[k].value, index |-> k - 1, score |-> ScoreOne]] :
        s \in 0 .. MaxStart, k \in 1 .. Len(lst)}

findChoices(lst) ==
    {r \in SeqsUpTo(FoundResults(lst), MaxMatches) :
        \A k \in 1 .. (Len(r) - 1) : r[k].end < r[k + 1].start}

\* ---- recognizeChoices ----
IndexOffByOne(match) == parseInt(match.resolution.value)

\* const index = parseInt(match.resolution.value) - 1
Index(match) == Minus(parseInt(match.resolution.value), 1)

\* Reading match.resolution.value raises a TypeError when resolution is missing.
bodyThrows(match) == match.resolution.kind = "missing"

\* try { ... } catch (e) { }: whether an exception of the body leaves
\* matchChoiceByIndex.
escapesUncaught(match) == bodyThrows(match)

escapes(match) == FALSE

\* matchChoiceByIndex(match): the matched array after the call
matchChoiceByIndex(match, lst, result) ==
    IF bodyThrows(match) THEN result
    ELSE IF InRange(Index(match), Len(lst))
         THEN Append(result,
                     [start |-> match.start, end |-> match.end, typeName |-> "choice",
                      text |-> match.text,
                      resolution |-> [value |-> lst[Index(match).n + 1].value,
                                      index |-> Index(match).n,
                                      score |-> ScoreOne]])
         ELSE result

\* ms.forEach(matchChoiceByIndex): the matched array after the loop, and
\* whether an exception ended it.
RECURSIVE forEach(_, _, _)
forEach(ms, lst, result) ==
    IF ms = <<>> THEN [matched |-> result, threw |-> FALSE]
    ELSE IF escapes(Head(ms)) THEN [matched |-> result, threw |-> TRUE]
    ELSE forEach(Tail(ms), lst, matchChoiceByIndex(Head(ms), lst, result))

IsSortedByStart(s) == \A k \in 1 .. (Len(s) - 1) : s[k].start <= s[k + 1].start

\* matched.sort((a, b) => a.start - b.start): the arrays the sort may produce
\* (the order of elements with equal start is left to the engine).
sortNot(s) == {s}

sort(s) ==
    IF Len(s) <= 1 THEN {s}
    ELSE {t \in {[k \in 1 .. Len(s) |-> s[p[k]]] : p \in Permutations(1 .. Len(s))} :
            IsSortedByStart(t)}

\* if (matched.length === 0)
fallbackAlways(result) == TRUE

fallback(result) == Len(result) = 0

\* if (ordinals.length > 0)
ordinalsFoundAlways(ords) == TRUE

ordinalsFound(ords) == Len(ords) > 0

NoCalls == [findChoices |-> 0, recognizeOrdinal |-> 0, recognizeNumber |-> 0]

NoArgs == [recognizeOrdinal |-> <<>>, recognizeNumber |-> <<>>]

\* The options argument: undefined, an object without locale, an object with.
Options ==
    {[defined |-> FALSE, locale |-> ""], [defined |-> TRUE, locale |-> ""],
     [defined |-> TRUE, locale |-> "fr-fr"]}

Utterances == {"the first or the 2nd one"}

\* const locale = options && options.locale ? options.locale : 'en-us'
locale == IF options.defined /\ options.locale # "" THEN options.locale ELSE "en-us"

\* The end of a call whose fallback loop ran over ms: sort and return, unless
\* an exception left the loop.
Finish(ms, r) ==
    \E out \in {forEach(ms, list', r)} :
        IF out.threw
        THEN /\ matched' = out.matched
             /\ thrown' = "matchChoiceByIndex"
             /\ pc' = "threw"
        ELSE /\ matched' \in sort(out.matched)
             /\ thrown' = "none"
             /\ pc' = "done"

\* A call in which findChoices throws (line 75).
FindChoicesThrows ==
    /\ pc = "start"
    /\ list' = Normalize(choices)
    /\ calls' = [NoCalls EXCEPT !.findChoices = 1]
    /\ thrown' = "findChoices"
    /\ pc' = "threw"
    /\ UNCHANGED <<utterance, choices, options, found, ordinals, numbers, matched, args>>
    /\ UNCHANGED tokVars

\* A call that returns what findChoices found (lines 68-76, 91).
RecognizeByName ==
    /\ pc = "start"
    /\ list' = Normalize(choices)
    /\ \E r \in findChoices(list') :
        /\ ~fallback(r)
        /\ found' = r
        /\ matched' = r
    /\ calls' = [NoCalls EXCEPT !.findChoices = 1]
    /\ pc' = "done"
    /\ UNCHANGED <<utterance, choices, options, ordinals, numbers, args, thrown>>
    /\ UNCHANGED tokVars

\* A call in which recognizeOrdinal throws (line 78).
RecognizeOrdinalThrows ==
    /\ pc = "start"
    /\ list' = Normalize(choices)
    /\ \E r \in findChoices(list') :
        /\ fallback(r)
        /\ found' = r
        /\ matched' = r
    /\ calls' = [NoCalls EXCEPT !.findChoices = 1, !.recognizeOrdinal = 1]
    /\ args' = [NoArgs EXCEPT !.recognizeOrdinal = <<utterance, locale>>]
    /\ thrown' = "recognizeOrdinal"
    /\ pc' = "threw"
    /\ UNCHANGED <<utterance, choices, options, ordinals, numbers>>
    /\ UNCHANGED tokVars

\* A call that falls back to the ordinals (lines 68-80, 89-91).
RecognizeByOrdinal ==
    /\ pc = "start"
    /\ list' = Normalize(choices)
    /\ calls' = [NoCalls EXCEPT !.findChoices = 1, !.recognizeOrdinal = 1]
    /\ args' = [NoArgs EXCEPT !.recognizeOrdinal = <<utterance, locale>>]
    /\ \E r \in findChoices(list') :
        /\ fallback(r)
        /\ found' = r
        /\ \E ords \in MatchLists :
            /\ ordinalsFound(ords)
            /\ ordinals' = ords
            /\ Finish(ords, r)
    /\ UNCHANGED <<utterance, choices, options, numbers>>
    /\ UNCHANGED tokVars

\* A call in which recognizeNumber throws (line 83).
RecognizeNumberThrows ==
    /\ pc = "start"
    /\ list' = Normalize(choices)
    /\ \E r \in findChoices(list') :
        /\ fallback(r)
        /\ found' = r
        /\ matched' = r
        /\ \E ords \in MatchLists :
            /\ ~ordinalsFound(ords)
            /\ ordinals' = ords
    /\ calls' = [findChoices |-> 1, recognizeOrdinal |-> 1, recognizeNumber |-> 1]
    /\ args' = [recognizeOrdinal |-> <<utterance, locale>>,
                recognizeNumber |-> <<utterance, locale>>]
    /\ thrown' = "recognizeNumber"
    /\ pc' = "threw"
    /\ UNCHANGED <<utterance, choices, options, numbers>>
    /\ UNCHANGED tokVars

\* A call that falls back to the numbers (lines 68-79, 81-84, 89-91).
RecognizeByNumber ==
    /\ pc = "start"
    /\ list' = Normalize(choices)
    /\ calls' = [findChoices |-> 1, recognizeOrdinal |-> 1, recognizeNumber |-> 1]
    /\ args' = [recognizeOrdinal |-> <<utterance, locale>>,
                recognizeNumber |-> <<utterance, locale>>]
    /\ \E r \in findChoices(list') :
        /\ fallback(r)
        /\ found' = r
        /\ \E ords \in MatchLists :
            /\ ~ordinalsFound(ords)
            /\ ordinals' = ords
            /\ \E nums \in MatchLists :
                /\ numbers' = nums
                /\ Finish(nums, r)
    /\ UNCHANGED <<utterance, choices, options>>
    /\ UNCHANGED tokVars

InitRecognizer ==
    /\ utterance \in Utterances
    /\ choices \in ChoiceLists
    /\ options \in Options
    /\ args = NoArgs
    /\ list = <<>>
    /\ found = <<>>
    /\ ordinals = <<>>
    /\ numbers = <<>>
    /\ matched = <<>>
    /\ calls = NoCalls
    /\ thrown = "none"
    /\ pc = "start"
    /\ text = [undef |-> TRUE, units |-> <<>>]
    /\ i = 0
    /\ token = NoToken
    /\ tokens = <<>>
    /\ tpc = "idle"

NextRecognizer ==
    \/ FindChoicesThrows
    \/ RecognizeByName
    \/ RecognizeOrdinalThrows
    \/ RecognizeByOrdinal
    \/ RecognizeNumberThrows
    \/ RecognizeByNumber

SpecRecognizer == InitRecognizer /\ [][NextRecognizer]_vars

(***************************************************************************)
(* Properties of defaultTokenizer                                          *)
(***************************************************************************)
\* What the input holds at offset p, read off the input alone.
PairAt(u, p) ==
    p + 2 <= Len(u) /\ IsHighSurrogate(u[p + 1]) /\ IsLowSurrogate(u[p + 2])

InPair(u, p) == PairAt(u, p) \/ (p > 0 /\ PairAt(u, p - 1))

WordAt(u, p) == ~InPair(u, p) /\ ~isBreakingChar(u[p + 1])

Offsets == 0 .. (length - 1)

\* Maximal runs of word characters, as <<first offset, last offset>>.
Runs ==
    {r \in Offsets \X Offsets :
        /\ r[1] <= r[2]
        /\ \A q \in r[1] .. r[2] : WordAt(text.units, q)
        /\ r[1] = 0 \/ ~WordAt(text.units, r[1] - 1)
        /\ r[2] = length - 1 \/ ~WordAt(text.units, r[2] + 1)}

TokenIndexes == 1 .. Len(tokens)

IsSupplementaryToken(t) == PairAt(text.units, t.start)

\* C7: every emitted token has 0 <= start <= end <= length - 1, and consecutive
\* tokens a, b satisfy a.end < b.start (strictly increasing starts, no
\* overlap); this holds for the tokens emitted so far after every scan step.
C7_TokensOrderedDisjoint ==
    /\ \A k \in TokenIndexes :
        /\ 0 <= tokens[k].start
        /\ tokens[k].start <= tokens[k].end
        /\ tokens[k].end <= length - 1
    /\ \A k \in 1 .. (Len(tokens) - 1) :
        /\ tokens[k].end < tokens[k + 1].start
        /\ tokens[k].start < tokens[k + 1].start

\* A finished scan of an input mixing a word, a breaking character and a
\* supplementary code point.
C7_Witness ==
    /\ tpc = "done"
    /\ \E q \in Offsets : isBreakingChar(text.units[q + 1])
    /\ \E k \in TokenIndexes : IsSupplementaryToken(tokens[k])
    /\ \E k \in TokenIndexes : ~IsSupplementaryToken(tokens[k])

\* C8: every token's normalized is the lowercase form of its text, for word
\* tokens and for tokens of code points above 0xFFFF alike.
C8_NormalizedIsLowercase ==
    \A k \in TokenIndexes : tokens[k].normalized = toLowerCase(tokens[k].text)

\* C9: a code point above 0xFFFF at offset p closes the open word token at
\* p - 1, is emitted as its own token [p, p + 1] whose text is that code point,
\* and moves the cursor to p + 2: its second code unit is never scanned, and any
\* later token starts at p + 2 or later.
C9_SupplementaryIsolated ==
    \A p \in Offsets :
        (PairAt(text.units, p) /\ p < i) =>
            /\ i >= p + 2
            /\ \E k \in TokenIndexes :
                /\ tokens[k].start = p
                /\ tokens[k].end = p + 1
                /\ tokens[k].text = <<text.units[p + 1], text.units[p + 2]>>
            /\ (p > 0 /\ ~isBreakingChar(text.units[p])) =>
                    \E k \in TokenIndexes : tokens[k].end = p - 1
            /\ \A k \in TokenIndexes :
                /\ tokens[k].start < p => tokens[k].end < p
                /\ tokens[k].start > p => tokens[k].start >= p + 2
            /\ token.open => token.start >= p + 2

\* A supplementary code point with a word character right before and right
\* after it, scanned to the end.
C9_Witness ==
    /\ tpc = "done"
    /\ \E p \in Offsets :
        /\ PairAt(text.units, p)
        /\ p > 0 /\ WordAt(text.units, p - 1)
        /\ p + 2 <= length - 1 /\ WordAt(text.units, p + 2)

\* C10: on return the word tokens are exactly the maximal runs of non-breaking
\* code points <= 0xFFFF, each with text equal to the input from start to end;
\* no token holds a breaking character; every non-breaking character lies in
\* exactly one token; an empty or undefined input gives no token.
C10_WordTokensAreMaximalRuns ==
    tpc = "done" =>
        /\ {<<tokens[k].start, tokens[k].end>> :
                k \in {j \in TokenIndexes : ~IsSupplementaryToken(tokens[j])}} = Runs
        /\ Cardinality({j \in TokenIndexes : ~IsSupplementaryToken(tokens[j])})
                = Cardinality(Runs)
        /\ \A k \in TokenIndexes :
            /\ tokens[k].text = SubSeq(text.units, tokens[k].start + 1, tokens[k].end + 1)
            /\ \A q \in tokens[k].start .. tokens[k].end :
                    ~isBreakingChar(text.units[q + 1])
        /\ \A q \in Offsets :
            ~isBreakingChar(text.units[q + 1]) =>
                Cardinality({k \in TokenIndexes :
                                tokens[k].start <= q /\ q <= tokens[k].end}) = 1
        /\ (text.undef \/ text.units = <<>>) => tokens = <<>>

\* Two word runs, the second one still open when the input ends.
C10_Witness ==
    /\ tpc = "done"
    /\ Cardinality(Runs) >= 2
    /\ WordAt(text.units, length - 1)
    /\ tokens[Len(tokens)].end = length - 1

(***************************************************************************)
(* Properties of recognizeChoices                                          *)
(***************************************************************************)
\* The collaborator list a fallback call worked on.
Source == IF ordinals # <<>> THEN ordinals ELSE numbers

FallbackReturned == pc = "done" /\ found = <<>>

\* The 1-based position each candidate text speaks of (0 for none).
SpokenPosition(m) ==
    CASE m.text = "first" -> 1
      [] m.text = "2nd" -> 2
      [] m.text = "fifth" -> 5
      [] m.text = "minus one" -> 0 - 1
      [] OTHER -> 0

\* Whether the match speaks of position 1 .. n.
Speaks(m, n) == 0 <= SpokenPosition(m) - 1 /\ SpokenPosition(m) - 1 < n

\* The result owed to a match that speaks of a position of lst.
Owed(m, lst) ==
    [start |-> m.start, end |-> m.end, typeName |-> "choice", text |-> m.text,
     resolution |-> [value |-> lst[SpokenPosition(m)].value,
                     index |-> SpokenPosition(m) - 1,
                     score |-> ScoreOne]]

RECURSIVE OwedList(_, _)
OwedList(ms, lst) ==
    IF ms = <<>> THEN <<>>
    ELSE IF Speaks(Head(ms), Len(lst))
         THEN <<Owed(Head(ms), lst)>> \o OwedList(Tail(ms), lst)
         ELSE OwedList(Tail(ms), lst)

IsPermutationOf(a, b) ==
    /\ Len(a) = Len(b)
    /\ \/ a = b
       \/ \E p \in Permutations(1 .. Len(a)) : \A k \in 1 .. Len(a) : a[k] = b[p[k]]

\* C1: whatever recognizeChoices returns is sorted by ascending start, on the
\* name-match branch and on the fallback branch.
C1_SortedByStart == pc = "done" => IsSortedByStart(matched)

\* A fallback call whose collaborator gave two usable matches in descending
\* start order.
C1_Witness ==
    /\ FallbackReturned
    /\ Len(matched) = 2
    /\ Len(Source) = 2
    /\ Source[1].start > Source[2].start

\* C2: when findChoices returns something, neither collaborator is invoked and
\* exactly that is returned; recognizeNumber runs only after findChoices
\* returned nothing; results of ordinals and of numbers are never mixed.
C2_SingleStrategy ==
    /\ found # <<>> =>
        /\ calls.recognizeOrdinal = 0
        /\ calls.recognizeNumber = 0
        /\ pc = "done" => matched = found
    /\ calls.recognizeNumber > 0 => (found = <<>> /\ calls.findChoices = 1)
    /\ ~(ordinals # <<>> /\ (numbers # <<>> \/ calls.recognizeNumber > 0))
    /\ FallbackReturned =>
        \A k \in 1 .. Len(matched) :
            \E j \in 1 .. Len(Source) :
                /\ matched[k].start = Source[j].start
                /\ matched[k].end = Source[j].end
                /\ matched[k].text = Source[j].text

C2_Witness ==
    /\ pc = "done"
    /\ Len(found) = 2
    /\ matched = found

\* The locale a call passes on: the caller's, "en-us" when none is given.
ExpectedLocale ==
    IF options = [defined |-> TRUE, locale |-> "fr-fr"] THEN "fr-fr" ELSE "en-us"

\* C3 as claimed: whenever name matching yields nothing and the ordinal
\* strategy yields no result (no ordinal match, or none that is usable), the
\* numeric collaborator is invoked and every in-range number match is emitted.
C3_NumbersWheneverOrdinalsYieldNothing ==
    (/\ FallbackReturned
     /\ \A k \in 1 .. Len(ordinals) : ~Speaks(ordinals[k], Len(list)))
        => /\ calls.recognizeNumber = 1
           /\ args.recognizeNumber = <<utterance, ExpectedLocale>>
           /\ \A k \in 1 .. Len(numbers) :
                Speaks(numbers[k], Len(list)) =>
                    \E j \in 1 .. Len(matched) : matched[j] = Owed(numbers[k], list)

\* C3 amended: the strategies run in the order name, ordinal, number; the
\* numeric collaborator is invoked exactly when name matching yields nothing
\* and the ordinal collaborator returns no match at all, and then every
\* in-range number match is emitted; when the ordinal collaborator returns a
\* match, usable or not, the numeric collaborator is not invoked.
C3_NumbersWhenNoOrdinalMatch ==
    /\ calls.recognizeNumber <= calls.recognizeOrdinal
    /\ calls.recognizeOrdinal <= calls.findChoices
    /\ (FallbackReturned /\ ordinals = <<>>) =>
        /\ calls.recognizeNumber = 1
        /\ args.recognizeNumber = <<utterance, ExpectedLocale>>
        /\ \A k \in 1 .. Len(numbers) :
            Speaks(numbers[k], Len(list)) =>
                \E j \in 1 .. Len(matched) : matched[j] = Owed(numbers[k], list)
    /\ (FallbackReturned /\ ordinals # <<>>) =>
        /\ calls.recognizeNumber = 0
        /\ numbers = <<>>

C3_Witness ==
    /\ FallbackReturned
    /\ ordinals = <<>>
    /\ calls.recognizeNumber = 1
    /\ \E k \in 1 .. Len(numbers) : Speaks(numbers[k], Len(list))
    /\ \E k \in 1 .. Len(numbers) : ~Speaks(numbers[k], Len(list))
    /\ matched # <<>>

\* C4: a fallback result for spoken position p has index p - 1 and the value
\* of the caller-supplied entry choices[p - 1], also when the list holds
\* falsy entries, and p - 1 is tested against the caller-supplied length
\* (stated here for the positions that hold a choice).
C4_IndexOfCallerSuppliedList ==
    FallbackReturned =>
        /\ \A k \in 1 .. Len(matched) :
            /\ matched[k].resolution.index + 1 <= Len(choices)
            /\ Truthy(choices[matched[k].resolution.index + 1])
            /\ matched[k].resolution.value
                    = choices[matched[k].resolution.index + 1].value
        /\ \A j \in 1 .. Len(Source) :
            (/\ Speaks(Source[j], Len(choices))
             /\ Truthy(choices[SpokenPosition(Source[j])])) =>
                \E k \in 1 .. Len(matched) :
                    /\ matched[k].start = Source[j].start
                    /\ matched[k].text = Source[j].text
                    /\ matched[k].resolution.index = SpokenPosition(Source[j]) - 1

\* C5: over the collaborator's list the fallback emits exactly one result per
\* match whose value parses to v with 0 <= v - 1 < number of (normalized)
\* choices, with typeName "choice", start, end and text of the match and
\* resolution {value of choice v - 1, index v - 1, score 1.0}; nothing for a
\* position beyond the list, for 0 or for a negative value.
C5_FallbackEmitsExactlyUsableMatches ==
    FallbackReturned => IsPermutationOf(matched, OwedList(Source, list))

C5_Witness ==
    /\ FallbackReturned
    /\ Len(Source) = 2
    /\ Len(matched) = 1
    /\ \E k \in 1 .. 2 : SpokenPosition(Source[k]) > Len(list)
    /\ matched[1].resolution.index = 1

\* C6: a call ends with an exception exactly when findChoices, recognizeOrdinal
\* or recognizeNumber throws, each invoked at most once; a malformed candidate
\* never raises, and the usable candidates before and after it all get their
\* result; with no match at all the call returns the empty sequence.
C6_OnlyCollaboratorFailuresPropagate ==
    /\ thrown \in {"none", "findChoices", "recognizeOrdinal", "recognizeNumber"}
    /\ pc = "threw" <=> thrown # "none"
    /\ \A name \in DOMAIN calls : calls[name] <= 1
    /\ thrown # "none" => calls[thrown] = 1
    /\ pc \in {"start", "done", "threw"}
    /\ FallbackReturned =>
        /\ \A j \in 1 .. Len(Source) :
            Speaks(Source[j], Len(list)) =>
                \E k \in 1 .. Len(matched) : matched[k] = Owed(Source[j], list)
        /\ Source = <<>> => matched = <<>>

\* A call that returned although a candidate without resolution stood before a
\* usable one.
C6_Witness ==
    /\ FallbackReturned
    /\ Len(Source) = 2
    /\ Source[1].resolution.kind = "missing"
    /\ Speaks(Source[2], Len(list))
    /\ Len(matched) = 1

====
